---------------------------- MODULE Spec2Model ----------------------------
(***************************************************************************)
(* A model of the chunked streaming loader of cpc/dataset.py:              *)
(* AudioBatchData (planner `prepare`, double-buffered `loadNextPack`,      *)
(* `parseNextDataBlock`, segment search, item labels) and the samplers.    *)
(*                                                                         *)
(* Python lists are sequences; Python indices and ranges keep their        *)
(* 0-based values (packageIndex holds <<start, end>> half-open, 0-based),  *)
(* and At / Slice do the translation to the 1-based sequences.             *)
(* An optional attribute (absent / None) is a sequence of length 0, a      *)
(* present one the one-element sequence holding its value.                 *)
(***************************************************************************)
EXTENDS Integers, Sequences, FiniteSets, TLC

(***************************************************************************)
(* Bounds of the model.                                                    *)
(***************************************************************************)
MaxSeqs == 4        \* files in the catalog: 1..MaxSeqs
MaxFrames == 2      \* frames of one file: 1..MaxFrames
MaxBudget == 3      \* MAX_SIZE_LOADED: 1..MaxBudget
RngStates == 3      \* states of the ambient random generator (abstracted)
MaxItems == 2       \* sequences of the one package a buffer is built from
MaxSamples == 2     \* samples of one decoded sequence of that package: 0..MaxSamples
MaxOffsets == 5     \* length of an offsets array handed to the segment search
MaxOffset == 3      \* largest value in such an array
SamplerItems == 2   \* sequences of the buffer a sampler is built against
SamplerSamples == 4 \* samples of one sequence of that buffer: 0..SamplerSamples
MaxWindow == 2      \* sizeWindow: 1..MaxWindow
MaxBatch == 2       \* batchSize: 1..MaxBatch
TorchStates == 3    \* states of torch's random generator (abstracted)
FlatSamples == 8    \* samples of the buffer a flat sampler is built against
IdxMargin == 2      \* item indices fetched: -IdxMargin..(buffer length + IdxMargin)

(***************************************************************************)
(* Program constants.                                                      *)
(***************************************************************************)
ShuffleSeed == 767543

VARIABLES
    files,            \* the disk: files[path] = number of frames of the file
    seqNames,         \* self.seqNames: list of (speaker, path)
    MAX_SIZE_LOADED,  \* self.MAX_SIZE_LOADED
    speakers,         \* self.speakers = list(range(nSpeakers))
    packageIndex,     \* self.packageIndex: list of [start, end]
    totSize,          \* self.totSize
    currentPack,      \* self.currentPack
    nextPack,         \* self.nextPack
    data,             \* self.data (optional: deleted by clear())
    speakerLabel,     \* self.speakerLabel (optional)
    seqLabel,         \* self.seqLabel (optional)
    phoneLabels,      \* self.phoneLabels (optional)
    wordLabels,       \* self.wordLabels (optional)
    phoneLabelsDict,  \* self.phoneLabelsDict (optional: None)
    wordLabelsDict,   \* self.wordLabelsDict (optional: None)
    nextData,         \* self.nextData (optional: exists only inside loadNextPack)
    r,                \* self.r: the AsyncResult of the last map_async (optional)
    cache,            \* self.reload_pool._cache: the jobs not yet finished
    probe,            \* the AsyncResult the blocking pool.map of prepare() waits on
    rng,              \* state of the ambient generator of module random
    pc,               \* position of the orchestrating thread
    ret,              \* where the running prepare() returns to
    seqRange,         \* locals seqStart, seqEnd of the running loadNextPack
    planLog,          \* record of the prepare() calls made so far (observation)
    sizeWindow,       \* self.sizeWindow
    sampler,          \* the batch sampler samplerCall() returned (optional)
    labelData,        \* the labels the last __getitem__ returned (optional)
    iter              \* the AudioLoader and the frame of its __iter__ (optional)

streamVars == <<files, seqNames, MAX_SIZE_LOADED, speakers, packageIndex, totSize,
                currentPack, nextPack, r, cache, probe, rng, pc, ret, seqRange>>
bufferVars == <<data, speakerLabel, seqLabel, phoneLabels, wordLabels>>
labelVars == <<phoneLabelsDict, wordLabelsDict>>
loaderVars == <<sizeWindow, sampler, labelData, iter>>
vars == <<streamVars, bufferVars, labelVars, loaderVars, nextData, planLog>>

None == <<>>
Some(x) == <<x>>

\* a[i] for a Python list a and a 0-based index i
At(a, i) == a[i + 1]

Min(a, b) == IF a < b THEN a ELSE b
Max(a, b) == IF a > b THEN a ELSE b

\* a[start:end] for 0 <= start, 0 <= end
Slice(a, start, end) == SubSeq(a, start + 1, Min(end, Len(a)))

RECURSIVE SumSeq(_)
SumSeq(s) == IF s = <<>> THEN 0 ELSE Head(s) + SumSeq(Tail(s))

(***************************************************************************)
(* The ambient random generator.  Its Mersenne-Twister state is abstracted *)
(* to a number in 0..RngStates-1; one draw moves it to the next state.     *)
(* The permutation random.shuffle applies to a list of n elements is       *)
(* decided by the state it starts from: from the state random.seed(767543) *)
(* sets, it is the permutation CPython 3 produces (result[i] is the        *)
(* element that was at position PyShuffle[i]); from another state it is    *)
(* some other permutation, here a rotation by the state.                   *)
(***************************************************************************)
seed(a) == a % RngStates

draw(g) == (g + 1) % RngStates

PyShuffle(n) ==
    CASE n = 0 -> <<>>
      [] n = 1 -> <<1>>
      [] n = 2 -> <<2, 1>>
      [] n = 3 -> <<2, 3, 1>>
      [] n = 4 -> <<4, 1, 3, 2>>
      [] n = 5 -> <<3, 5, 4, 1, 2>>
      [] n = 6 -> <<3, 4, 6, 5, 1, 2>>
      [] n = 7 -> <<3, 4, 6, 5, 1, 2, 7>>

ShufflePerm(g, n) ==
    IF g = seed(ShuffleSeed)
    THEN PyShuffle(n)
    ELSE [i \in 1..n |-> ((i + g) % n) + 1]

\* random.shuffle(x) from generator state g: the list, and the state after
shuffle(g, x) ==
    LET p == ShufflePerm(g, Len(x))
    IN  [list |-> [i \in 1..Len(x) |-> x[p[i]]],
         state |-> (g + Max(Len(x), 1) - 1) % RngStates]

(***************************************************************************)
(* extractLength / loadFile: the two worker tasks.                         *)
(* A decoded waveform is the sequence of its samples, a sample being       *)
(* <<path, position>>; the sequence name (the path's stem) is the path.    *)
(* A negative files[path] is a file whose header reads -files[path] frames *)
(* and whose samples do not decode: sf.read raises on it.                  *)
(***************************************************************************)
extractLength(couple) ==
    IF files[couple.path] < 0 THEN -files[couple.path] ELSE files[couple.path]

\* line 324: sf.read raises
DecodeFails(ref) == files[ref.path] < 0

loadFile(ref) ==
    [speaker |-> ref.speaker,
     seqName |-> ref.path,
     seq |-> [p \in 1..files[ref.path] |-> <<ref.path, p>>]]

\* Pool.map / Pool.map_async of the two worker functions over a list
MapExtractLength(s) == [i \in 1..Len(s) |-> extractLength(s[i])]

MapLoadFile(s) == [i \in 1..Len(s) |-> loadFile(s[i])]

(***************************************************************************)
(* prepare(): lines 111-122, the greedy scan over allLength.               *)
(* st = [start, packageSize, packageIndex, totSize]; index is 0-based.     *)
(***************************************************************************)
ScanStepLate(st, index, length, maxSize) ==
    LET size == st.packageSize + length
    IN  IF size > maxSize + length
        THEN [start |-> index, packageSize |-> 0,
              packageIndex |-> Append(st.packageIndex, <<st.start, index>>),
              totSize |-> st.totSize + size]
        ELSE [st EXCEPT !.packageSize = size]

ScanStep(st, index, length, maxSize) ==
    LET size == st.packageSize + length
    IN  IF size > maxSize
        THEN [start |-> index, packageSize |-> 0,
              packageIndex |-> Append(st.packageIndex, <<st.start, index>>),
              totSize |-> st.totSize + size]
        ELSE [st EXCEPT !.packageSize = size]

RECURSIVE Scan(_, _, _, _)
Scan(st, index, allLength, maxSize) ==
    IF index >= Len(allLength)
    THEN st
    ELSE Scan(ScanStep(st, index, At(allLength, index), maxSize),
              index + 1, allLength, maxSize)

\* lines 111-122: the plan of a list of lengths
Chunk(allLength, maxSize) ==
    LET st == Scan([start |-> 0, packageSize |-> 0, packageIndex |-> <<>>,
                    totSize |-> 0], 0, allLength, maxSize)
    IN  IF st.packageSize > 0
        THEN [packageIndex |-> Append(st.packageIndex, <<st.start, Len(allLength)>>),
              totSize |-> st.totSize + st.packageSize]
        ELSE [packageIndex |-> st.packageIndex, totSize |-> st.totSize]

\* lines 101-105: the seeded shuffle between getstate and setstate;
\* the new list and the ambient state after the setstate
SeededShuffleUnseeded(g, names) ==
    LET randomstate == g
        sh == shuffle(g, names)
    IN  [seqNames |-> sh.list, rng |-> randomstate]

\* the shuffle of lines 101-105 without the setstate of line 105
SeededShuffleNoRestore(g, names) ==
    LET sh == shuffle(seed(ShuffleSeed), names)
    IN  [seqNames |-> sh.list, rng |-> sh.state]

SeededShuffle(g, names) ==
    LET randomstate == g
        sh == shuffle(seed(ShuffleSeed), names)
    IN  [seqNames |-> sh.list, rng |-> randomstate]

(***************************************************************************)
(* parseNextDataBlock(): lines 152-194.                                    *)
(* A label dictionary is [step |-> samples per label, labels |-> a         *)
(* function from the sequence names it holds to their label lists].        *)
(* A failed call is the exception it raises (err); it leaves no self.data. *)
(***************************************************************************)
KeyLess(a, b) ==
    \/ a.speaker < b.speaker
    \/ a.speaker = b.speaker /\ a.seqName < b.seqName

RECURSIVE InsertSorted(_, _)
InsertSorted(x, s) ==
    IF s = <<>> THEN <<x>>
    ELSE IF KeyLess(x, Head(s)) THEN <<x>> \o s
    ELSE <<Head(s)>> \o InsertSorted(x, Tail(s))

\* line 163: nextData.sort(key=lambda x: (x[0], x[1])), a stable sort
RECURSIVE SortData(_)
SortData(s) ==
    IF s = <<>> THEN <<>>
    ELSE InsertSorted(s[Len(s)], SortData(SubSeq(s, 1, Len(s) - 1)))

\* lines 169-170
Missing(dict, seqName) == dict # None /\ seqName \notin DOMAIN dict[1].labels

\* lines 173-175: the while loop moving the registry pointer
RECURSIVE AdvanceSpeaker(_, _, _)
AdvanceSpeaker(st, registry, speaker) ==
    IF st.indexSpeaker >= Len(registry)
    THEN [st EXCEPT !.err = "IndexError"]
    ELSE IF At(registry, st.indexSpeaker) < speaker
    THEN AdvanceSpeaker([st EXCEPT !.indexSpeaker = @ + 1,
                                   !.speakerLabel = Append(@, st.speakerSize)],
                        registry, speaker)
    ELSE st

\* RetainItem with the running size of line 191 overwritten, not accumulated
RetainItemResetSize(st, registry, phoneDict, wordDict, item) ==
    IF At(registry, st.indexSpeaker) # item.speaker
    THEN [st EXCEPT !.err = "ValueError"]
    ELSE
      LET phones == IF phoneDict # None THEN phoneDict[1].labels[item.seqName] ELSE <<>>
          seq == IF phoneDict # None
                 THEN Slice(item.seq, 0, Len(phones) * phoneDict[1].step)
                 ELSE item.seq
      IN  [st EXCEPT !.wordLabels = @ \o (IF wordDict # None
                                          THEN wordDict[1].labels[item.seqName]
                                          ELSE <<>>),
                     !.phoneLabels = @ \o phones,
                     !.tmpData = Append(@, seq),
                     !.seqLabel = Append(@, @[Len(@)] + Len(seq)),
                     !.speakerSize = Len(seq)]

\* lines 176-191, once the registry pointer has moved
RetainItem(st, registry, phoneDict, wordDict, item) ==
    IF At(registry, st.indexSpeaker) # item.speaker
    THEN [st EXCEPT !.err = "ValueError"]
    ELSE
      LET words == IF wordDict # None THEN wordDict[1].labels[item.seqName] ELSE <<>>
          phones == IF phoneDict # None THEN phoneDict[1].labels[item.seqName] ELSE <<>>
          seq == IF phoneDict # None
                 THEN Slice(item.seq, 0, Len(phones) * phoneDict[1].step)
                 ELSE item.seq
          sizeSeq == Len(seq)
      IN  [st EXCEPT !.wordLabels = @ \o words,
                     !.phoneLabels = @ \o phones,
                     !.tmpData = Append(@, seq),
                     !.seqLabel = Append(@, @[Len(@)] + sizeSeq),
                     !.speakerSize = @ + sizeSeq]

\* one iteration of the for loop if a sequence of a speaker outside the
\* registry were skipped like one absent from a track
ParseItemSkipUnknown(st, registry, phoneDict, wordDict, item) ==
    IF st.err # "none" THEN st
    ELSE IF Missing(phoneDict, item.seqName) \/ Missing(wordDict, item.seqName)
    THEN st
    ELSE IF \A k \in 1..Len(registry) : registry[k] # item.speaker
    THEN st
    ELSE RetainItem(AdvanceSpeaker(st, registry, item.speaker),
                    registry, phoneDict, wordDict, item)

\* lines 166-191: one iteration of the for loop
ParseItem(st, registry, phoneDict, wordDict, item) ==
    IF st.err # "none" THEN st
    ELSE IF Missing(phoneDict, item.seqName) \/ Missing(wordDict, item.seqName)
    THEN st
    ELSE LET moved == AdvanceSpeaker(st, registry, item.speaker)
         IN  IF moved.err # "none" THEN moved
             ELSE RetainItem(moved, registry, phoneDict, wordDict, item)

RECURSIVE ParseLoop(_, _, _, _, _)
ParseLoop(st, registry, phoneDict, wordDict, items) ==
    IF items = <<>> THEN st
    ELSE ParseLoop(ParseItem(st, registry, phoneDict, wordDict, Head(items)),
                   registry, phoneDict, wordDict, Tail(items))

RECURSIVE Concat(_)
Concat(ss) == IF ss = <<>> THEN <<>> ELSE Head(ss) \o Concat(Tail(ss))

parseNextDataBlock(block, registry, phoneDict, wordDict) ==
    LET st == ParseLoop([speakerLabel |-> <<0>>, seqLabel |-> <<0>>,
                         phoneLabels |-> <<>>, wordLabels |-> <<>>,
                         speakerSize |-> 0, indexSpeaker |-> 0,
                         tmpData |-> <<>>, err |-> "none"],
                        registry, phoneDict, wordDict, SortData(block))
        \* line 194: torch.cat raises on an empty list of tensors
        err == IF st.err # "none" THEN st.err
               ELSE IF st.tmpData = <<>> THEN "RuntimeError" ELSE "none"
    IN  [err |-> err,
         speakerLabel |-> IF st.err = "none"
                          THEN Append(st.speakerLabel, st.speakerSize)
                          ELSE st.speakerLabel,
         seqLabel |-> st.seqLabel,
         phoneLabels |-> st.phoneLabels,
         wordLabels |-> st.wordLabels,
         data |-> IF err = "none" THEN Some(Concat(st.tmpData)) ELSE None]

(***************************************************************************)
(* The worker pool (multiprocessing.dummy.Pool).  A job is one map or      *)
(* map_async call; pool._cache holds the jobs that have tasks left, and a  *)
(* job leaves it when its last task finishes.  An AsyncResult is ready     *)
(* when its job is no longer in the cache.                                 *)
(***************************************************************************)
JobIds(c) == {j.id : j \in c}

NewId(c, held) ==
    CHOOSE i \in 1..(Cardinality(c) + Len(held) + 1) :
        i \notin JobIds(c) /\ (held = None \/ held[1].id # i)

\* the cache after a map / map_async over `items` as job `id`
Submitted(c, id, kind, items) ==
    IF items = <<>> THEN c
    ELSE c \cup {[id |-> id, kind |-> kind, left |-> Len(items)]}

\* AsyncResult.wait() returns / AsyncResult.ready()
ReadyNoWait(h, c) == TRUE

Ready(h, c) == h # None /\ h[1].id \notin JobIds(c)

\* AsyncResult.get() of a map_async(loadFile, items)
Result(h) == MapLoadFile(h[1].items)

\* AsyncResult.get() re-raises the exception of a task that raised
GetNeverRaises(h) == FALSE

GetRaises(h) == \E i \in 1..Len(h[1].items) : DecodeFails(h[1].items[i])

InFlightLoads == {j \in cache : j.kind = "load"}

\* a worker step that would drop the resident buffer as the job completes
WorkerStepDropsBuffer ==
    /\ \E j \in cache :
         /\ cache' = IF j.left > 1
                     THEN (cache \ {j}) \cup {[j EXCEPT !.left = @ - 1]}
                     ELSE cache \ {j}
         /\ data' = IF j.left > 1 THEN data ELSE None
    /\ UNCHANGED <<files, seqNames, MAX_SIZE_LOADED, speakers, packageIndex, totSize,
                   currentPack, nextPack, r, probe, rng, pc, ret, seqRange>>
    /\ UNCHANGED <<speakerLabel, seqLabel, phoneLabels, wordLabels>>
    /\ UNCHANGED <<labelVars, loaderVars, nextData, planLog>>

\* one worker thread finishes one task of a job
WorkerStep ==
    /\ \E j \in cache :
         cache' = IF j.left > 1
                  THEN (cache \ {j}) \cup {[j EXCEPT !.left = @ - 1]}
                  ELSE cache \ {j}
    /\ UNCHANGED <<files, seqNames, MAX_SIZE_LOADED, speakers, packageIndex, totSize,
                   currentPack, nextPack, r, probe, rng, pc, ret, seqRange>>
    /\ UNCHANGED <<bufferVars, labelVars, loaderVars, nextData, planLog>>

(***************************************************************************)
(* prepare(), lines 100-129, in its two halves: up to the blocking         *)
(* pool.map (lines 101-109), and from its return on (lines 111-129).       *)
(***************************************************************************)
\* lines 101-109: shuffle, then hand the length probes to the pool
PrepareCall(from) ==
    LET sh == SeededShuffle(rng, seqNames)
        id == NewId(cache, r)
    IN  /\ seqNames' = sh.seqNames
        /\ rng' = sh.rng
        /\ probe' = Some([id |-> id])
        /\ cache' = Submitted(cache, id, "probe", sh.seqNames)
        /\ pc' = "prepare"
        /\ ret' = from

\* lines 149-150: self.r = map_async(loadFile, seqNames[seqStart:seqEnd])
IssueLoad(c, range, pack, names) ==
    LET id == NewId(c, r)
        items == Slice(names, range[1], range[2])
    IN  /\ r' = Some([id |-> id, pack |-> pack, items |-> items])
        /\ cache' = Submitted(c, id, "load", items)

\* line 135 / lines 88-98: clear()
Clear ==
    /\ data' = None
    /\ speakerLabel' = None
    /\ seqLabel' = None
    /\ phoneLabels' = None
    /\ wordLabels' = None

\* lines 134-137 of the loadNextPack() that follows loadNextPack(first=True)
\* in __init__ (line 72), up to its r.wait()
EnterAdvance(pack) ==
    /\ Clear
    /\ currentPack' = pack
    /\ pc' = "wait"

\* __init__, lines 49-56: into prepare()
Construct ==
    /\ pc = "new"
    /\ PrepareCall("ctor")
    /\ UNCHANGED <<files, MAX_SIZE_LOADED, speakers, packageIndex, totSize,
                   currentPack, nextPack, r, seqRange>>
    /\ UNCHANGED <<bufferVars, labelVars, loaderVars, nextData, planLog>>

\* prepare() returns (lines 111-129) to __init__ line 56; __init__ goes on
\* (lines 57-71) into loadNextPack(first=True), which either calls
\* prepare() again (line 148) or issues the first load and returns to
\* line 72, loadNextPack(), which blocks in r.wait()
PrepareReturnsToInit ==
    /\ pc = "prepare" /\ ret = "ctor" /\ Ready(probe, cache)
    /\ LET plan == Chunk(MapExtractLength(seqNames), MAX_SIZE_LOADED)
           next == (-1 + 1) % Len(plan.packageIndex)
           range == At(plan.packageIndex, next)
       IN  /\ packageIndex' = plan.packageIndex
           /\ totSize' = plan.totSize
           /\ nextPack' = next
           /\ seqRange' = range
           /\ IF next = 0 /\ Len(plan.packageIndex) > 1
              THEN /\ PrepareCall("first")
                   /\ Clear
                   /\ currentPack' = -1
                   /\ UNCHANGED r
              ELSE /\ IssueLoad(cache, range, next, seqNames)
                   /\ EnterAdvance(next)
                   /\ probe' = None
                   /\ UNCHANGED <<seqNames, rng, ret>>
    /\ UNCHANGED <<files, MAX_SIZE_LOADED, speakers>>
    /\ UNCHANGED <<labelVars, loaderVars, nextData, planLog>>

\* prepare() returns to loadNextPack line 148; lines 149-150 issue the load
\* with the seqStart, seqEnd read at line 146.  In __init__ the call was
\* loadNextPack(first=True) and line 72 follows.
PrepareReturnsToLoad ==
    /\ pc = "prepare" /\ ret \in {"first", "next"} /\ Ready(probe, cache)
    /\ LET plan == Chunk(MapExtractLength(seqNames), MAX_SIZE_LOADED)
       IN  /\ packageIndex' = plan.packageIndex
           /\ totSize' = plan.totSize
           /\ nextPack' = 0
           /\ IssueLoad(cache, seqRange, 0, seqNames)
           /\ probe' = None
           /\ IF ret = "first"
              THEN EnterAdvance(0)
              ELSE /\ currentPack' = -1
                   /\ pc' = "idle"
                   /\ UNCHANGED bufferVars
    /\ UNCHANGED <<files, seqNames, MAX_SIZE_LOADED, speakers, rng, ret, seqRange>>
    /\ UNCHANGED <<labelVars, loaderVars, nextData, planLog>>

\* loadNextPack(), lines 134-137: advance() is called and blocks in r.wait()
Advance ==
    /\ pc = "idle"
    /\ EnterAdvance(nextPack)
    /\ UNCHANGED <<files, seqNames, MAX_SIZE_LOADED, speakers, packageIndex, totSize,
                   nextPack, r, cache, probe, rng, ret, seqRange>>
    /\ UNCHANGED <<labelVars, loaderVars, nextData, planLog>>

\* loadNextPack(), lines 140-150: r.wait() returns; get, parse, and either
\* issue the next load or call prepare() first (line 148)
WaitReturns ==
    /\ pc = "wait" /\ Ready(r, cache)
    /\ LET parsed == parseNextDataBlock(Result(r), speakers,
                                        phoneLabelsDict, wordLabelsDict)
           next == (currentPack + 1) % Len(packageIndex)
           range == At(packageIndex, next)
       IN  IF GetRaises(r)
           THEN \* line 142: r.get() raises, after clear() emptied the stream
                /\ pc' = "DecodeError"
                /\ UNCHANGED bufferVars
                /\ UNCHANGED <<seqNames, nextPack, r, cache, probe, rng, ret,
                               seqRange>>
           ELSE
           /\ data' = parsed.data
           /\ speakerLabel' = Some(parsed.speakerLabel)
           /\ seqLabel' = Some(parsed.seqLabel)
           /\ phoneLabels' = Some(parsed.phoneLabels)
           /\ wordLabels' = Some(parsed.wordLabels)
           /\ IF parsed.err # "none"
              THEN /\ pc' = parsed.err
                   /\ UNCHANGED <<seqNames, nextPack, r, cache, probe, rng, ret,
                                  seqRange>>
              ELSE /\ nextPack' = next
                   /\ seqRange' = range
                   /\ IF next = 0 /\ Len(packageIndex) > 1
                      THEN /\ PrepareCall("next")
                           /\ UNCHANGED r
                      ELSE /\ IssueLoad(cache, range, next, seqNames)
                           /\ pc' = "idle"
                           /\ UNCHANGED <<seqNames, probe, rng, ret>>
    /\ UNCHANGED <<files, MAX_SIZE_LOADED, speakers, packageIndex, totSize, currentPack>>
    /\ UNCHANGED <<labelVars, loaderVars, nextData, planLog>>

(***************************************************************************)
(* The stream: a catalog of 1..MaxSeqs files on two speakers, from the     *)
(* first line of __init__ on.  Attributes that do not exist yet hold the   *)
(* value their first assignment gives them.                                *)
(***************************************************************************)
Catalog(n) == [i \in 1..n |-> [speaker |-> (i - 1) % 2, path |-> i]]

Init ==
    /\ \E n \in 1..MaxSeqs :
         /\ files \in [1..n -> 1..MaxFrames]
         /\ seqNames = Catalog(n)
    /\ MAX_SIZE_LOADED \in 1..MaxBudget
    /\ speakers = <<0, 1>>
    /\ packageIndex = <<>>
    /\ totSize = 0
    /\ currentPack = -1
    /\ nextPack = 0
    /\ data = None /\ speakerLabel = None /\ seqLabel = None
    /\ phoneLabels = None /\ wordLabels = None
    /\ phoneLabelsDict = None /\ wordLabelsDict = None
    /\ nextData = None
    /\ r = None
    /\ cache = {}
    /\ probe = None
    /\ rng \in 0..(RngStates - 1)
    /\ pc = "new"
    /\ ret = "ctor"
    /\ seqRange = <<0, 0>>
    /\ planLog = <<>>
    /\ sizeWindow = 2
    /\ sampler = None
    /\ labelData = None
    /\ iter = None

Next ==
    \/ Construct
    \/ PrepareReturnsToInit
    \/ PrepareReturnsToLoad
    \/ Advance
    \/ WaitReturns
    \/ WorkerStep

Spec == Init /\ [][Next]_vars

(***************************************************************************)
(* Claims about the stream (Spec).                                         *)
(***************************************************************************)
\* the package `pack` (0-based) of the plan in force, as a list of references
PackageOf(names, plan, pack) ==
    Slice(names, At(plan, pack)[1], At(plan, pack)[2])

PackageRefs(pack) == PackageOf(seqNames, packageIndex, pack)

\* C1: at most one package-load job is ever in flight, and whenever the
\* stream is at rest (construction done, every advance() returned) exactly
\* one buffer is resident and exactly one load job is outstanding: the one
\* self.r holds; no other load is in the pool.
C1_OneBufferOneLoad ==
    /\ Cardinality(InFlightLoads) <= 1
    /\ pc = "idle" =>
         /\ Len(data) = 1
         /\ r # None
         /\ \A j \in InFlightLoads : j.id = r[1].id

\* C1 witness: at rest after an epoch wrap that re-ran the planner, with the
\* next load still running in the pool
C1_Witness ==
    /\ pc = "idle"
    /\ currentPack = -1
    /\ Len(packageIndex) > 1
    /\ Cardinality(InFlightLoads) = 1

\* the step in which a loadNextPack(first=False) returns
AdvanceReturns == pc \in {"wait", "prepare"} /\ pc' = "idle"

\* C2: in the step in which advance() returns, the job it waited on has
\* completed, the resident buffer is the parse of that job's result,
\* currentPack (line 137) is the index that job was issued for, and exactly
\* one new load has been issued: the one for package
\* (currentPack + 1) mod packageCount (line 145), reading that package of
\* the plan in force.
C2_AdvanceContract ==
    [][AdvanceReturns =>
         /\ Ready(r, cache)
         /\ data' = parseNextDataBlock(Result(r), speakers,
                                       phoneLabelsDict, wordLabelsDict).data
         /\ currentPack = r[1].pack
         /\ r' # r
         /\ r'[1].pack = (currentPack + 1) % Len(packageIndex)
         /\ r'[1].items = PackageOf(seqNames', packageIndex', r'[1].pack)
         /\ InFlightLoads' \subseteq {j \in cache' : j.id = r'[1].id}]_vars

\* C3: a load issued for package index 0 reads package 0 of the plan in
\* force when it is issued (with more than one package, the plan the
\* planner has just recomputed, on the newly shuffled catalog).  The job
\* stays outstanding, and the plan unchanged, until the advance() that
\* consumes it.
C3_WrapLoadsNewPlan ==
    (pc \in {"idle", "wait"} /\ r[1].pack = 0) => r[1].items = PackageRefs(0)

\* C18: a step taken while the stream is at rest between two advance()
\* calls leaves the buffer, its offsets and its label tracks as they are;
\* and a step that is not one of the orchestrating thread (pc and ret
\* stay: a worker-pool task) changes neither the buffer, the job handle
\* self.r, the current package index, nor the plan.
C18_WorkersOwnNothing ==
    [][/\ (pc = "idle" /\ pc' = "idle") => UNCHANGED bufferVars
       /\ (pc' = pc /\ ret' = ret) =>
            UNCHANGED <<bufferVars, r, currentPack, packageIndex, seqNames>>]_vars

\* C18 witness: at rest with a buffer, the next load, of one sequence or
\* more, already completed by the workers
C18_Witness ==
    /\ pc = "idle"
    /\ data # None
    /\ r # None /\ Len(r[1].items) >= 1
    /\ Ready(r, cache)

(***************************************************************************)
(* The stream over a disk with files that do not decode (SpecDecode): the  *)
(* catalog of Init, each file of one frame by its header, its samples      *)
(* readable or not.                                                        *)
(***************************************************************************)
InitDecode ==
    /\ \E n \in 1..MaxSeqs :
         /\ files \in [1..n -> {-1, 1}]
         /\ seqNames = Catalog(n)
    /\ MAX_SIZE_LOADED \in 1..MaxBudget
    /\ speakers = <<0, 1>>
    /\ packageIndex = <<>>
    /\ totSize = 0
    /\ currentPack = -1
    /\ nextPack = 0
    /\ data = None /\ speakerLabel = None /\ seqLabel = None
    /\ phoneLabels = None /\ wordLabels = None
    /\ phoneLabelsDict = None /\ wordLabelsDict = None
    /\ nextData = None
    /\ r = None
    /\ cache = {}
    /\ probe = None
    /\ rng \in 0..(RngStates - 1)
    /\ pc = "new"
    /\ ret = "ctor"
    /\ seqRange = <<0, 0>>
    /\ planLog = <<>>
    /\ sizeWindow = 2
    /\ sampler = None
    /\ labelData = None
    /\ iter = None

SpecDecode == InitDecode /\ [][Next]_vars

\* some sequence of the job self.r holds does not decode
LoadFailed == \E i \in 1..Len(r[1].items) : files[r[1].items[i].path] < 0

\* C20: the advance() that waits on a load job one of whose decode tasks
\* failed ends in that error and leaves no buffer; and a buffer that
\* becomes resident is the parse of the whole result of a job none of
\* whose tasks failed.
C20_DecodeFailureAborts ==
    [][/\ (pc = "wait" /\ Ready(r, cache) /\ LoadFailed) =>
            (pc' = "DecodeError" /\ data' = None)
       /\ (data' # None /\ data' # data) =>
            /\ ~LoadFailed
            /\ data' = parseNextDataBlock(Result(r), speakers,
                                          phoneLabelsDict, wordLabelsDict).data]_vars

\* C20 witness: an advance() after construction has failed on a package of
\* two sequences or more, one of which decoded and one of which did not
C20_Witness ==
    /\ pc = "DecodeError"
    /\ data = None
    /\ currentPack >= 1
    /\ \E i, j \in 1..Len(r[1].items) :
         /\ files[r[1].items[i].path] < 0
         /\ files[r[1].items[j].path] > 0

(***************************************************************************)
(* The planner alone (SpecPlan): prepare() run to completion, again and    *)
(* again on the catalog it has itself reshuffled, while other code draws   *)
(* from the ambient generator in between.  planLog keeps the first call    *)
(* and the latest one: the list each was given, the ambient state it was   *)
(* called in, and the order and plan it left.                              *)
(***************************************************************************)
\* prepare(), lines 100-129, as one step
PlanPrepare ==
    /\ pc \in {"new", "planned"}
    /\ LET sh == SeededShuffle(rng, seqNames)
           plan == Chunk(MapExtractLength(sh.seqNames), MAX_SIZE_LOADED)
           call == [catalog |-> seqNames, ambient |-> rng,
                    order |-> sh.seqNames, packages |-> plan.packageIndex]
       IN  /\ seqNames' = sh.seqNames
           /\ rng' = sh.rng
           /\ packageIndex' = plan.packageIndex
           /\ totSize' = plan.totSize
           /\ planLog' = IF planLog = <<>> THEN <<call>> ELSE <<planLog[1], call>>
    /\ currentPack' = -1
    /\ nextPack' = 0
    /\ pc' = "planned"
    /\ UNCHANGED <<files, MAX_SIZE_LOADED, speakers, r, cache, probe, ret, seqRange>>
    /\ UNCHANGED <<bufferVars, labelVars, loaderVars, nextData>>

\* line 310, random.randint, or line 465, random.shuffle: a draw made by
\* other code between two runs of the planner
AmbientDraw ==
    /\ pc = "planned"
    /\ rng' = draw(rng)
    /\ UNCHANGED <<files, seqNames, MAX_SIZE_LOADED, speakers, packageIndex, totSize,
                   currentPack, nextPack, r, cache, probe, pc, ret, seqRange>>
    /\ UNCHANGED <<bufferVars, labelVars, loaderVars, nextData, planLog>>

NextPlan == PlanPrepare \/ AmbientDraw

SpecPlan == Init /\ [][NextPlan]_vars

\* frame lengths of the catalog in the order the plan was computed on
allLength == MapExtractLength(seqNames)

PackageSum(range) == SumSeq(Slice(allLength, range[1], range[2]))

\* C4: the packages of a plan are consecutive half-open ranges from 0 to
\* n, so every catalog index lies in exactly one package.
C4_PlanPartitions ==
    pc = "planned" =>
      /\ Len(packageIndex) >= 1
      /\ packageIndex[1][1] = 0
      /\ \A k \in 1..(Len(packageIndex) - 1) :
           packageIndex[k + 1][1] = packageIndex[k][2]
      /\ packageIndex[Len(packageIndex)][2] = Len(seqNames)
      /\ \A i \in 0..(Len(seqNames) - 1) :
           Cardinality({k \in 1..Len(packageIndex) :
                          packageIndex[k][1] <= i /\ i < packageIndex[k][2]}) = 1

\* C5: no package of a plan is empty.
C5_NoEmptyPackage ==
    pc = "planned" =>
      \A k \in 1..Len(packageIndex) : packageIndex[k][1] < packageIndex[k][2]

\* C6: the summed frame length of a package exceeds MAX_SIZE_LOADED by at
\* most the frame length of one sequence of that package.
C6_OvershootOneSequence ==
    pc = "planned" =>
      \A k \in 1..Len(packageIndex) :
        \/ PackageSum(packageIndex[k]) <= MAX_SIZE_LOADED
        \/ \E i \in packageIndex[k][1]..(packageIndex[k][2] - 1) :
             PackageSum(packageIndex[k]) <= MAX_SIZE_LOADED + At(allLength, i)

\* C6 witness: a plan with a package, not the last one, that is over the
\* budget
C6_Witness ==
    /\ pc = "planned"
    /\ \E k \in 1..(Len(packageIndex) - 1) :
         PackageSum(packageIndex[k]) > MAX_SIZE_LOADED

\* C7: two runs of the planner on the same list (and the same budget)
\* leave the same order and the same package ranges, whatever the ambient
\* generator state each was called in.
C7_PlannerDeterministic ==
    (Len(planLog) = 2 /\ planLog[1].catalog = planLog[2].catalog) =>
      /\ planLog[1].order = planLog[2].order
      /\ planLog[1].packages = planLog[2].packages

\* C7 witness: the planner has run twice on the same list of at least
\* three sequences, called in two different ambient states
C7_Witness ==
    /\ Len(planLog) = 2
    /\ planLog[1].catalog = planLog[2].catalog
    /\ planLog[1].ambient # planLog[2].ambient
    /\ Len(seqNames) >= 3
    /\ Len(packageIndex) >= 2

LabelsOf(name, count) == [k \in 1..count |-> <<name, k>>]

\* a phone track: none; every sequence with one label; or all sequences
\* but the first, with no label for the even names
PhoneTracks(n) ==
    {None,
     Some([step |-> 1, labels |-> [name \in 1..n |-> LabelsOf(name, 1)]]),
     Some([step |-> 2, labels |-> [name \in 2..n |-> LabelsOf(name, name % 2)]])}

\* a word track: none, or all sequences but the last
WordTracks(n) ==
    {None,
     Some([step |-> 1, labels |-> [name \in 1..(n - 1) |-> LabelsOf(name, 1)]])}

InitParse ==
    /\ \E n \in 0..MaxItems :
         /\ files \in [1..n -> 0..MaxSamples]
         /\ \E spk \in [1..n -> 0..3] :
              seqNames = [i \in 1..n |-> [speaker |-> spk[i], path |-> i]]
         /\ packageIndex = <<<<0, n>>>>
         /\ phoneLabelsDict \in PhoneTracks(n)
         /\ wordLabelsDict \in WordTracks(n)
    /\ r = Some([id |-> 1, pack |-> 0, items |-> seqNames])
    /\ MAX_SIZE_LOADED = MaxItems * MaxSamples
    /\ speakers = <<0, 1, 2>>
    /\ totSize = SumSeq(files)
    /\ currentPack = 0
    /\ nextPack = 0
    /\ data = None /\ speakerLabel = None /\ seqLabel = None
    /\ phoneLabels = None /\ wordLabels = None
    /\ nextData = None
    /\ cache = {}
    /\ probe = None
    /\ rng = 0
    /\ pc = "wait"
    /\ ret = "ctor"
    /\ seqRange = <<0, 0>>
    /\ planLog = <<>>
    /\ sizeWindow = 2
    /\ sampler = None
    /\ labelData = None
    /\ iter = None

\* lines 142-144: nextData = r.get(); parseNextDataBlock(); del nextData
ParseBlock ==
    /\ pc = "wait" /\ Ready(r, cache)
    /\ LET parsed == parseNextDataBlock(Result(r), speakers,
                                        phoneLabelsDict, wordLabelsDict)
       IN  /\ data' = parsed.data
           /\ speakerLabel' = Some(parsed.speakerLabel)
           /\ seqLabel' = Some(parsed.seqLabel)
           /\ phoneLabels' = Some(parsed.phoneLabels)
           /\ wordLabels' = Some(parsed.wordLabels)
           /\ pc' = IF parsed.err = "none" THEN "parsed" ELSE parsed.err
    /\ nextData' = None
    /\ UNCHANGED <<files, seqNames, MAX_SIZE_LOADED, speakers, packageIndex, totSize,
                   currentPack, nextPack, r, cache, probe, rng, ret, seqRange>>
    /\ UNCHANGED <<labelVars, loaderVars, planLog>>

NextParse == ParseBlock

SpecParse == InitParse /\ [][NextParse]_vars

StartsAtZero(offsets) == offsets[1] = 0

EndsAt(offsets, n) == offsets[Len(offsets)] = n

StrictlyIncreasing(offsets) ==
    \A i \in 1..(Len(offsets) - 1) : offsets[i] < offsets[i + 1]

NonDecreasing(offsets) ==
    \A i \in 1..(Len(offsets) - 1) : offsets[i] <= offsets[i + 1]

\* C8 as stated: in every buffer that is built, speakerLabel and seqLabel
\* start at 0, are strictly increasing and end at the buffer length.
C8_OffsetsStrict ==
    pc = "parsed" =>
      /\ StartsAtZero(speakerLabel[1]) /\ StartsAtZero(seqLabel[1])
      /\ StrictlyIncreasing(speakerLabel[1]) /\ StrictlyIncreasing(seqLabel[1])
      /\ EndsAt(speakerLabel[1], Len(data[1])) /\ EndsAt(seqLabel[1], Len(data[1]))

\* C8 as amended: in every buffer that is built, speakerLabel and seqLabel
\* start at 0, never decrease and end at the buffer length.
C8_OffsetsAscending ==
    pc = "parsed" =>
      /\ StartsAtZero(speakerLabel[1]) /\ StartsAtZero(seqLabel[1])
      /\ NonDecreasing(speakerLabel[1]) /\ NonDecreasing(seqLabel[1])
      /\ EndsAt(speakerLabel[1], Len(data[1])) /\ EndsAt(seqLabel[1], Len(data[1]))

\* C8 witness: a buffer of two sequences of two speakers, both retained,
\* and one registry speaker between them without a sequence
C8_Witness ==
    /\ pc = "parsed"
    /\ Len(speakerLabel[1]) = 4
    /\ speakerLabel[1][1] < speakerLabel[1][2]
    /\ speakerLabel[1][2] = speakerLabel[1][3]
    /\ speakerLabel[1][3] < speakerLabel[1][4]
    /\ Len(seqLabel[1]) = Len(seqNames) + 1

(***************************************************************************)
(* binary_search_max_less, lines 211-224, and getSeqIdx, lines 204-206.    *)
(***************************************************************************)
RECURSIVE binary_search_max_less(_, _, _)
binary_search_max_less(a, tgt, i) ==
    IF Len(a) = 1 THEN i
    ELSE LET mid_i == Len(a) \div 2
         IN  IF At(a, mid_i) > tgt
             THEN binary_search_max_less(Slice(a, 0, mid_i), tgt, i)
             ELSE IF At(a, mid_i) < tgt
             THEN binary_search_max_less(Slice(a, mid_i, Len(a)), tgt, i + mid_i)
             ELSE i + mid_i

getSeqIdx(idx) == binary_search_max_less(seqLabel[1], idx, 0)

(***************************************************************************)
(* The segment search alone (SpecSearch): getSeqIdx over an offsets array  *)
(* of 1..MaxOffsets ascending values in 0..MaxOffset, repeats allowed.     *)
(***************************************************************************)
AscendingArrays ==
    UNION {{a \in [1..n -> 0..MaxOffset] : NonDecreasing(a)} : n \in 1..MaxOffsets}

InitSearch ==
    /\ \E a \in AscendingArrays : seqLabel = Some(a)
    /\ files = <<>>
    /\ seqNames = <<>>
    /\ packageIndex = <<>>
    /\ phoneLabelsDict = None
    /\ wordLabelsDict = None
    /\ r = None
    /\ MAX_SIZE_LOADED = MaxOffset
    /\ speakers = <<0, 1, 2>>
    /\ totSize = 0
    /\ currentPack = 0
    /\ nextPack = 0
    /\ data = None /\ speakerLabel = None
    /\ phoneLabels = None /\ wordLabels = None
    /\ nextData = None
    /\ cache = {}
    /\ probe = None
    /\ rng = 0
    /\ pc = "parsed"
    /\ ret = "ctor"
    /\ seqRange = <<0, 0>>
    /\ planLog = <<>>
    /\ sizeWindow = 1
    /\ sampler = None
    /\ labelData = None
    /\ iter = None

\* line 243: labelData['seqIdx'] = getSeqIdx(idx)
GetSeqIdx ==
    /\ pc = "parsed"
    /\ \E idx \in 0..MaxOffset :
         labelData' = Some([idx |-> idx, seqIdx |-> getSeqIdx(idx)])
    /\ UNCHANGED <<streamVars, bufferVars, labelVars, sizeWindow, sampler, iter,
                   nextData, planLog>>

NextSearch == GetSeqIdx

SpecSearch == InitSearch /\ [][NextSearch]_vars

\* C9: for an ascending offsets array (repeats allowed) and an idx with
\* offsets[0] <= idx < offsets[-1], the index i the search returns
\* satisfies offsets[i] <= idx < offsets[i+1].
C9_SegmentFound ==
    (/\ labelData # None
     /\ At(seqLabel[1], 0) <= labelData[1].idx
     /\ labelData[1].idx < seqLabel[1][Len(seqLabel[1])]) =>
        LET i == labelData[1].seqIdx
        IN  /\ i + 1 < Len(seqLabel[1])
            /\ At(seqLabel[1], i) <= labelData[1].idx
            /\ labelData[1].idx < At(seqLabel[1], i + 1)

(***************************************************************************)
(* SameSpeakerSampler.__init__, lines 421-455, getIndex, lines 460-462,    *)
(* and getSpeakerLabel, lines 226-229.                                     *)
(* torch.randperm(val) is decided by the state t of torch's generator,     *)
(* abstracted to a number: the permutation of 0..val-1 is the rotation by  *)
(* t \div 2, read backwards when t is odd.                                 *)
(***************************************************************************)
randperm(t, val) ==
    [i \in 1..val |->
        LET x == ((i - 1) + (t \div 2)) % val
        IN  IF t % 2 = 1 THEN val - 1 - x ELSE x]

\* lines 435-441
sizeSamplersNoShrink(samplingIntervals, window, offset) ==
    [i \in 1..(Len(samplingIntervals) - 1) |->
        (samplingIntervals[i + 1] - samplingIntervals[i]) \div window]

sizeSamplers(samplingIntervals, window, offset) ==
    LET nWindows == Len(samplingIntervals) - 1
        sizes == [i \in 1..nWindows |->
                    (samplingIntervals[i + 1] - samplingIntervals[i]) \div window]
    IN  IF offset > 0
        THEN [i \in 1..nWindows |-> Max(0, sizes[i] - 1)]
        ELSE sizes

\* lines 460-462
getIndex(x, iInterval, samplingIntervals, window, offset) ==
    offset + x * window + At(samplingIntervals, iInterval)

\* the while loop of lines 450-455 if it dropped an incomplete last batch
RECURSIVE GroupBatchesDropLast(_, _, _, _, _, _, _)
GroupBatchesDropLast(perm, indexStart, indexSampler, batchSize, samplingIntervals, window, offset) ==
    IF indexStart + batchSize > Len(perm) THEN <<>>
    ELSE LET indexEnd == indexStart + batchSize
             part == Slice(perm, indexStart, indexEnd)
             locBatch == [k \in 1..Len(part) |->
                            getIndex(part[k], indexSampler, samplingIntervals,
                                     window, offset)]
         IN  <<locBatch>> \o GroupBatchesDropLast(perm, indexEnd, indexSampler,
                                                  batchSize, samplingIntervals,
                                                  window, offset)

\* lines 450-455: the while loop over one group's permutation
RECURSIVE GroupBatches(_, _, _, _, _, _, _)
GroupBatches(perm, indexStart, indexSampler, batchSize, samplingIntervals, window, offset) ==
    IF indexStart >= Len(perm) THEN <<>>
    ELSE LET indexEnd == Min(Len(perm), indexStart + batchSize)
             part == Slice(perm, indexStart, indexEnd)
             locBatch == [k \in 1..Len(part) |->
                            getIndex(part[k], indexSampler, samplingIntervals,
                                     window, offset)]
         IN  <<locBatch>> \o GroupBatches(perm, indexEnd, indexSampler, batchSize,
                                          samplingIntervals, window, offset)

\* lines 443-455: the groups in order, those without a window left out
RECURSIVE BuildBatches(_, _, _, _, _, _, _)
BuildBatches(indexSampler, sizes, t, batchSize, samplingIntervals, window, offset) ==
    IF indexSampler >= Len(sizes) THEN <<>>
    ELSE (IF At(sizes, indexSampler) > 0
          THEN GroupBatches(randperm(t, At(sizes, indexSampler)), 0, indexSampler,
                            batchSize, samplingIntervals, window, offset)
          ELSE <<>>)
         \o BuildBatches(indexSampler + 1, sizes, t, batchSize, samplingIntervals,
                         window, offset)

SameSpeakerSampler(batchSize, samplingIntervals, window, offset, t) ==
    IF At(samplingIntervals, 0) # 0
    THEN [err |-> "AttributeError", batches |-> <<>>,
          samplingIntervals |-> samplingIntervals, sizeWindow |-> window,
          batchSize |-> batchSize, offset |-> offset, sizeSamplers |-> <<>>]
    ELSE LET sizes == sizeSamplers(samplingIntervals, window, offset)
         IN  [err |-> "none",
              batches |-> BuildBatches(0, sizes, t, batchSize, samplingIntervals,
                                       window, offset),
              samplingIntervals |-> samplingIntervals, sizeWindow |-> window,
              batchSize |-> batchSize, offset |-> offset, sizeSamplers |-> sizes]

\* lines 226-229; -2 stands for the StopIteration of next()
getSpeakerLabel(idx) ==
    LET above == {i \in 0..(Len(speakerLabel[1]) - 1) : At(speakerLabel[1], i) > idx}
    IN  IF above = {} THEN -2
        ELSE (CHOOSE i \in above : \A j \in above : i <= j) - 1

(***************************************************************************)
(* The grouped samplers alone (SpecSampler): samplerCall() on the buffer   *)
(* of a package of 1..SamplerItems sequences of the speakers               *)
(* SamplerSpeakers of the registry 0, 1, 2, of 0..SamplerSamples samples   *)
(* each, no label track.  pc moves from "parsed" to "sampled": the         *)
(* position of AudioLoader.__iter__ once its sampler is built.             *)
(***************************************************************************)
SamplerSpeakers == {0, 2}

InitSampler ==
    /\ \E n \in 1..SamplerItems :
         /\ files \in [1..n -> 0..SamplerSamples]
         /\ \E spk \in [1..n -> SamplerSpeakers] :
              seqNames = [i \in 1..n |-> [speaker |-> spk[i], path |-> i]]
         /\ packageIndex = <<<<0, n>>>>
    /\ phoneLabelsDict = None
    /\ wordLabelsDict = None
    /\ speakers = <<0, 1, 2>>
    /\ LET parsed == parseNextDataBlock(MapLoadFile(seqNames), speakers,
                                        phoneLabelsDict, wordLabelsDict)
       IN  /\ parsed.err = "none"
           /\ data = parsed.data
           /\ speakerLabel = Some(parsed.speakerLabel)
           /\ seqLabel = Some(parsed.seqLabel)
           /\ phoneLabels = Some(parsed.phoneLabels)
           /\ wordLabels = Some(parsed.wordLabels)
    /\ r = None
    /\ MAX_SIZE_LOADED = SamplerItems * SamplerSamples
    /\ totSize = SumSeq(files)
    /\ currentPack = 0
    /\ nextPack = 0
    /\ nextData = None
    /\ cache = {}
    /\ probe = None
    /\ rng = 0
    /\ pc = "parsed"
    /\ ret = "ctor"
    /\ seqRange = <<0, 0>>
    /\ planLog = <<>>
    /\ sizeWindow \in 1..MaxWindow
    /\ sampler = None
    /\ labelData = None
    /\ iter = None

\* getDataLoader.samplerCall, lines 309-312, into getBaseSampler, lines
\* 270-276, for the two grouped types
BuildSampler ==
    /\ pc = "parsed"
    /\ \E type \in {"samespeaker", "samesequence"}, batchSize \in 1..MaxBatch,
          offset \in 0..(sizeWindow \div 2), t \in 0..(TorchStates - 1) :
         sampler' = Some([type |-> type,
                          obj |-> SameSpeakerSampler(
                                     batchSize,
                                     IF type = "samespeaker" THEN speakerLabel[1]
                                                             ELSE seqLabel[1],
                                     sizeWindow, offset, t)])
    /\ rng' = draw(rng)
    /\ pc' = "sampled"
    /\ UNCHANGED <<files, seqNames, MAX_SIZE_LOADED, speakers, packageIndex, totSize,
                   currentPack, nextPack, r, cache, probe, ret, seqRange>>
    /\ UNCHANGED <<bufferVars, labelVars, sizeWindow, labelData, iter, nextData,
                   planLog>>

NextSampler == BuildSampler

SpecSampler == InitSampler /\ [][NextSampler]_vars

\* the windows of `batch` all lie inside group g of the sampler's intervals
InGroup(batch, g, obj) ==
    \A k \in 1..Len(batch) :
      /\ At(obj.samplingIntervals, g) <= batch[k]
      /\ batch[k] + obj.sizeWindow <= At(obj.samplingIntervals, g + 1)

\* C10: every batch of a grouped sampler holds start indices of one group
\* g only, each window [idx, idx + sizeWindow) inside
\* [offsets[g], offsets[g+1]); and all indices of a batch of the
\* speaker-grouped sampler resolve (getSpeakerLabel) to one speaker id.
C10_BatchInOneGroup ==
    sampler # None =>
      LET obj == sampler[1].obj
      IN  /\ obj.err = "none"
          /\ \A b \in 1..Len(obj.batches) :
               /\ obj.batches[b] # <<>>
               /\ \E g \in 0..(Len(obj.samplingIntervals) - 2) :
                    InGroup(obj.batches[b], g, obj)
               /\ sampler[1].type = "samespeaker" =>
                    \A j, k \in 1..Len(obj.batches[b]) :
                      /\ getSpeakerLabel(obj.batches[b][j]) >= 0
                      /\ getSpeakerLabel(obj.batches[b][j])
                           = getSpeakerLabel(obj.batches[b][k])

\* C10 witness: a speaker-grouped sampler built with a phase offset over a
\* buffer of two speakers, holding a batch of each
C10_Witness ==
    /\ sampler # None
    /\ sampler[1].type = "samespeaker"
    /\ sampler[1].obj.offset > 0
    /\ \E b, c \in 1..Len(sampler[1].obj.batches) :
         getSpeakerLabel(sampler[1].obj.batches[b][1])
           # getSpeakerLabel(sampler[1].obj.batches[c][1])

\* the batches of the sampler that lie in group g, in the order built
GroupBatchesOf(obj, g) ==
    LET OfGroup(batch) == InGroup(batch, g, obj)
    IN  SelectSeq(obj.batches, OfGroup)

\* how many times start index idx occurs in a list of batches
Occurrences(batches, idx) ==
    Cardinality({<<b, k>> \in (1..Len(batches)) \X (1..(MaxBatch + 1)) :
                   k <= Len(batches[b]) /\ batches[b][k] = idx})

\* C11: a group with n > 0 usable windows yields ceil(n / B) batches, all
\* of size B but the last, which has the remaining n - B * (ceil(n/B) - 1)
\* indices; every local window 0..n-1 of the group is in exactly one of
\* them; a group with no usable window yields no batch.
C11_GroupBatchSizes ==
    sampler # None =>
      LET obj == sampler[1].obj
          B == obj.batchSize
      IN  \A g \in 0..(Len(obj.samplingIntervals) - 2) :
            LET n == At(obj.sizeSamplers, g)
                count == (n + B - 1) \div B
                bs == GroupBatchesOf(obj, g)
            IN  /\ Len(bs) = count
                /\ \A k \in 1..(count - 1) : Len(bs[k]) = B
                /\ count > 0 => Len(bs[count]) = n - B * (count - 1)
                /\ \A x \in 0..(n - 1) :
                     Occurrences(bs, obj.offset + x * obj.sizeWindow
                                       + At(obj.samplingIntervals, g)) = 1

\* C11 witness: a group of three usable windows batched by two (sizes 2
\* and 1), next to a group without a usable window
C11_Witness ==
    /\ sampler # None
    /\ sampler[1].obj.batchSize = 2
    /\ \E g, h \in 1..Len(sampler[1].obj.sizeSamplers) :
         /\ sampler[1].obj.sizeSamplers[g] = 3
         /\ sampler[1].obj.sizeSamplers[h] = 0

(***************************************************************************)
(* The flat samplers: UniformAudioSampler, lines 376-394, under torch's    *)
(* BatchSampler(sampler, batchSize, drop_last=True) of line 282, and       *)
(* SequentialSampler, lines 397-416.                                       *)
(***************************************************************************)
UniformAudioSamplerNoShrink(dataSize, window, offset) ==
    [len |-> dataSize \div window, sizeWindow |-> window, offset |-> offset]

\* lines 379-387
UniformAudioSampler(dataSize, window, offset) ==
    [len |-> (dataSize \div window) - (IF offset > 0 THEN 1 ELSE 0),
     sizeWindow |-> window, offset |-> offset]

\* lines 389-391: the list __iter__ walks; torch.randperm of a negative
\* number raises
UniformIter(obj, t) ==
    IF obj.len < 0
    THEN [err |-> "RuntimeError", list |-> <<>>]
    ELSE [err |-> "none",
          list |-> [k \in 1..obj.len |->
                      obj.offset + obj.sizeWindow * randperm(t, obj.len)[k]]]

\* BatchSampler.__iter__ with drop_last: full batches only
BatchSampler(list, batchSize) ==
    [b \in 1..(Len(list) \div batchSize) |->
        SubSeq(list, (b - 1) * batchSize + 1, b * batchSize)]

SequentialSamplerNoShrink(dataSize, window, offset, batchSize) ==
    [len |-> (dataSize \div window) \div batchSize,
     sizeWindow |-> window, offset |-> offset, batchSize |-> batchSize,
     startBatches |-> [x \in 1..batchSize |-> (x - 1) * (dataSize \div batchSize)]]

\* lines 399-408
SequentialSampler(dataSize, window, offset, batchSize) ==
    [len |-> ((dataSize \div window) \div batchSize) - (IF offset > 0 THEN 1 ELSE 0),
     sizeWindow |-> window, offset |-> offset, batchSize |-> batchSize,
     startBatches |-> [x \in 1..batchSize |-> (x - 1) * (dataSize \div batchSize)]]

\* lines 410-413: range(self.len) is empty for a negative len
SequentialIter(obj) ==
    [step \in 1..obj.len |->
        [b \in 1..obj.batchSize |->
            obj.offset + obj.sizeWindow * (step - 1) + obj.startBatches[b]]]

(***************************************************************************)
(* The flat samplers alone (SpecFlat): samplerCall() on the buffer of one  *)
(* sequence of 0..FlatSamples samples, then one iteration of the sampler   *)
(* it returned (pc "sampled" to "iterated").                               *)
(***************************************************************************)
InitFlat ==
    /\ files \in [1..1 -> 0..FlatSamples]
    /\ seqNames = <<[speaker |-> 0, path |-> 1]>>
    /\ packageIndex = <<<<0, 1>>>>
    /\ phoneLabelsDict = None
    /\ wordLabelsDict = None
    /\ speakers = <<0, 1, 2>>
    /\ LET parsed == parseNextDataBlock(MapLoadFile(seqNames), speakers,
                                        phoneLabelsDict, wordLabelsDict)
       IN  /\ data = parsed.data
           /\ speakerLabel = Some(parsed.speakerLabel)
           /\ seqLabel = Some(parsed.seqLabel)
           /\ phoneLabels = Some(parsed.phoneLabels)
           /\ wordLabels = Some(parsed.wordLabels)
    /\ r = None
    /\ MAX_SIZE_LOADED = FlatSamples
    /\ totSize = SumSeq(files)
    /\ currentPack = 0
    /\ nextPack = 0
    /\ nextData = None
    /\ cache = {}
    /\ probe = None
    /\ rng = 0
    /\ pc = "parsed"
    /\ ret = "ctor"
    /\ seqRange = <<0, 0>>
    /\ planLog = <<>>
    /\ sizeWindow \in 1..MaxWindow
    /\ sampler = None
    /\ labelData = None
    /\ iter = None

\* getDataLoader.samplerCall, lines 309-312, into getBaseSampler, lines
\* 277-282, for the two flat types
BuildFlatSampler ==
    /\ pc = "parsed"
    /\ \E type \in {"sequential", "uniform"}, batchSize \in 1..MaxBatch,
          offset \in 0..(sizeWindow \div 2) :
         sampler' = Some([type |-> type,
                          obj |-> IF type = "sequential"
                                  THEN SequentialSampler(Len(data[1]), sizeWindow,
                                                         offset, batchSize)
                                  ELSE UniformAudioSampler(Len(data[1]), sizeWindow,
                                                           offset),
                          batchSize |-> batchSize,
                          err |-> "none", list |-> <<>>, batches |-> <<>>])
    /\ rng' = draw(rng)
    /\ pc' = "sampled"
    /\ UNCHANGED <<files, seqNames, MAX_SIZE_LOADED, speakers, packageIndex, totSize,
                   currentPack, nextPack, r, cache, probe, ret, seqRange>>
    /\ UNCHANGED <<bufferVars, labelVars, sizeWindow, labelData, iter, nextData,
                   planLog>>

\* AudioLoader.__iter__, lines 365-370: the DataLoader walks the batch
\* sampler once; list is what UniformAudioSampler.__iter__ returned, batches
\* what the batch sampler yielded
IterateFlatSampler ==
    /\ pc = "sampled"
    /\ \E t \in 0..(TorchStates - 1) :
         LET it == UniformIter(sampler[1].obj, t)
         IN  sampler' =
               IF sampler[1].type = "sequential"
               THEN Some([sampler[1] EXCEPT
                            !.batches = SequentialIter(sampler[1].obj)])
               ELSE Some([sampler[1] EXCEPT
                            !.err = it.err,
                            !.list = it.list,
                            !.batches = BatchSampler(it.list, sampler[1].batchSize)])
    /\ pc' = "iterated"
    /\ UNCHANGED <<files, seqNames, MAX_SIZE_LOADED, speakers, packageIndex, totSize,
                   currentPack, nextPack, r, cache, probe, rng, ret, seqRange>>
    /\ UNCHANGED <<bufferVars, labelVars, sizeWindow, labelData, iter, nextData,
                   planLog>>

NextFlat == BuildFlatSampler \/ IterateFlatSampler

SpecFlat == InitFlat /\ [][NextFlat]_vars

\* C12: the uniform sampler's window count is floor(bufferSize /
\* sizeWindow), minus one if offset > 0; the list one iteration walks holds
\* every start index offset + sizeWindow * i, 0 <= i < count, exactly once;
\* the batches are its consecutive runs of batchSize indices, an incomplete
\* remainder left out.
C12_UniformWindows ==
    (sampler # None /\ sampler[1].type = "uniform") =>
      LET s == sampler[1]
          count == (Len(data[1]) \div sizeWindow)
                     - (IF s.obj.offset > 0 THEN 1 ELSE 0)
      IN  /\ s.obj.len = count
          /\ (pc = "iterated" /\ s.err = "none") =>
               /\ Len(s.list) = count
               /\ \A i \in 0..(count - 1) :
                    \E k \in 1..Len(s.list) :
                      s.list[k] = s.obj.offset + sizeWindow * i
               /\ Len(s.batches) = count \div s.batchSize
               /\ \A b \in 1..Len(s.batches) :
                    /\ Len(s.batches[b]) = s.batchSize
                    /\ \A k \in 1..s.batchSize :
                         s.batches[b][k] = s.list[(b - 1) * s.batchSize + k]
          /\ (pc = "iterated" /\ s.err # "none") => s.batches = <<>>

\* C12 witness: a buffer of 8 samples under windows of 2 and offset 1 (3
\* windows where offset 0 gives 4), walked in batches of 2: one batch, the
\* third index left out
C12_Witness ==
    /\ sampler # None /\ sampler[1].type = "uniform"
    /\ pc = "iterated"
    /\ Len(data[1]) = 8 /\ sizeWindow = 2
    /\ sampler[1].obj.offset = 1
    /\ sampler[1].obj.len = 3
    /\ sampler[1].batchSize = 2
    /\ Len(sampler[1].batches) = 1
    /\ sampler[1].list[1] # 1

\* the batch of step idx (0-based) of the sequential sampler, as claimed
SequentialBatch(s, idx) ==
    [b \in 1..s.batchSize |->
        s.obj.offset + sizeWindow * idx
          + (b - 1) * (Len(data[1]) \div s.batchSize)]

\* C13 as stated: the sequential sampler yields exactly (bufferSize //
\* sizeWindow) // B batches, whatever the phase offset, the batch of step
\* idx being offset + sizeWindow * idx + start_b for b = 0..B-1.
C13_SequentialCount ==
    (sampler # None /\ sampler[1].type = "sequential" /\ pc = "iterated") =>
      LET s == sampler[1]
      IN  /\ Len(s.batches) = (Len(data[1]) \div sizeWindow) \div s.batchSize
          /\ \A idx \in 0..(Len(s.batches) - 1) :
               At(s.batches, idx) = SequentialBatch(s, idx)

\* C13 as amended: it yields (bufferSize // sizeWindow) // B batches, one
\* fewer if offset > 0 (none if that leaves less than one), the batch of
\* step idx being offset + sizeWindow * idx + start_b for b = 0..B-1.
C13_SequentialCountShrunk ==
    (sampler # None /\ sampler[1].type = "sequential" /\ pc = "iterated") =>
      LET s == sampler[1]
          len == ((Len(data[1]) \div sizeWindow) \div s.batchSize)
                   - (IF s.obj.offset > 0 THEN 1 ELSE 0)
      IN  /\ Len(s.batches) = Max(len, 0)
          /\ \A idx \in 0..(Len(s.batches) - 1) :
               At(s.batches, idx) = SequentialBatch(s, idx)

\* C13 witness: 8 samples, windows of 2, batches of 2, offset 1: one step
\* where offset 0 gives two
C13_Witness ==
    /\ sampler # None /\ sampler[1].type = "sequential"
    /\ pc = "iterated"
    /\ Len(data[1]) = 8 /\ sizeWindow = 2
    /\ sampler[1].batchSize = 2
    /\ sampler[1].obj.offset = 1
    /\ sampler[1].batches = <<<<1, 5>>>>

(***************************************************************************)
(* __getitem__, lines 235-259, with getPhonem / getWord, lines 196-202.    *)
(***************************************************************************)
\* a[start:end] of Python (and torch) for any integers: a negative index
\* counts from the end, and both are clamped to the list
PyIndex(i, n) == IF i < 0 THEN Max(i + n, 0) ELSE Min(i, n)

PySlice(a, start, end) ==
    SubSeq(a, PyIndex(start, Len(a)) + 1, PyIndex(end, Len(a)))

\* lines 60-67
phoneSize == IF phoneLabelsDict = None THEN 0 ELSE phoneLabelsDict[1].step

phoneStep == IF phoneLabelsDict = None THEN 0 ELSE sizeWindow \div phoneSize

wordSize == IF wordLabelsDict = None THEN 0 ELSE wordLabelsDict[1].step

wordStep == IF wordLabelsDict = None THEN 0 ELSE sizeWindow \div wordSize

\* lines 196-198
getPhonem(idx) ==
    LET idPhone == idx \div phoneSize
    IN  PySlice(phoneLabels[1], idPhone, idPhone + phoneStep)

\* lines 200-202
getWord(idx) ==
    LET idWord == idx \div wordSize
    IN  PySlice(wordLabels[1], idWord, idWord + wordStep)

\* lines 235-259: the test of line 237 only prints idx; view(1, -1) of an
\* empty slice raises, as does next() in getSpeakerLabel when no offset is
\* above idx
getitem(idx) ==
    LET outData == PySlice(data[1], idx, sizeWindow + idx)
        err == IF outData = <<>> THEN "RuntimeError"
               ELSE IF getSpeakerLabel(idx) = -2 THEN "StopIteration"
               ELSE "none"
    IN  IF err # "none"
        THEN [idx |-> idx, err |-> err]
        ELSE [idx |-> idx, err |-> "none", outData |-> outData,
              speaker |-> getSpeakerLabel(idx),
              seqIdx |-> getSeqIdx(idx),
              phone |-> IF phoneSize > 0 THEN Some(getPhonem(idx)) ELSE None,
              word |-> IF wordSize > 0 THEN Some(getWord(idx)) ELSE None]

(***************************************************************************)
(* Item fetch (SpecItem): the buffers of SpecParse, and __getitem__ called *)
(* on them with indices inside and outside of the buffer.                  *)
(***************************************************************************)
GetItem ==
    /\ pc = "parsed"
    /\ \E idx \in (-IdxMargin)..(Len(data[1]) + IdxMargin) :
         labelData' = Some(getitem(idx))
    /\ UNCHANGED <<streamVars, bufferVars, labelVars, sizeWindow, sampler, iter,
                   nextData, planLog>>

NextItem == ParseBlock \/ GetItem

SpecItem == InitParse /\ [][NextItem]_vars

\* C14: a fetch with an index outside 0 <= idx <= bufferLen - sizeWindow - 1
\* ends in an error; it returns no window and labels.
C14_OutOfBoundsReported ==
    (/\ labelData # None
     /\ \/ labelData[1].idx < 0
        \/ labelData[1].idx > Len(data[1]) - sizeWindow - 1)
      => labelData[1].err # "none"

\* the label the sample at flat index idx should get from a track of the
\* given step: that of its own sequence, at its position inside the sequence
OwnLabel(idx, step) ==
    LET smp == At(data[1], idx)
    IN  <<smp[1], ((smp[2] - 1) \div step) + 1>>

\* every sample of the buffer maps (idx // step) to a label of its sequence
Aligned(track, step) ==
    /\ Len(track) * step = Len(data[1])
    /\ \A idx \in 0..(Len(data[1]) - 1) :
         /\ idx \div step < Len(track)
         /\ At(track, idx \div step) = OwnLabel(idx, step)

\* C15: in every buffer built with a label track configured, the track
\* entry at idx // step is the label of the sequence sample idx came from,
\* at position p // step of it; the track has bufferLength / step entries.
C15_LabelsAligned ==
    pc = "parsed" =>
      /\ phoneLabelsDict # None => Aligned(phoneLabels[1], phoneSize)
      /\ wordLabelsDict # None => Aligned(wordLabels[1], wordSize)

\* the sequences of the loaded package that no configured track lacks
Retained ==
    {i \in 1..Len(seqNames) :
       /\ ~Missing(phoneLabelsDict, seqNames[i].path)
       /\ ~Missing(wordLabelsDict, seqNames[i].path)}

RegistryHolds(speaker) == \E k \in 1..Len(speakers) : speakers[k] = speaker

\* C16: a package of one sequence or more whose retained sequences all
\* have registry speakers is built without error, whatever sequences are
\* absent from a track (all of them included), and the buffer holds the
\* retained sequences only: one boundary for each, and no sample or label
\* of another sequence.
C16_AbsentExcluded ==
    (/\ pc # "wait"
     /\ seqNames # <<>>
     /\ \A i \in Retained : RegistryHolds(seqNames[i].speaker)) =>
      /\ pc = "parsed"
      /\ Len(seqLabel[1]) = Cardinality(Retained) + 1
      /\ \A k \in 1..Len(data[1]) : data[1][k][1] \in Retained
      /\ \A k \in 1..Len(phoneLabels[1]) : phoneLabels[1][k][1] \in Retained
      /\ \A k \in 1..Len(wordLabels[1]) : wordLabels[1][k][1] \in Retained

\* C17: a package with a retained sequence whose speaker is not in the
\* registry ends the build in a fatal error and leaves no buffer; a package
\* whose speakers are all in the registry never ends in that error.
C17_UnknownSpeakerFatal ==
    pc # "wait" =>
      /\ (\E i \in Retained : ~RegistryHolds(seqNames[i].speaker)) =>
           /\ pc \in {"IndexError", "ValueError"}
           /\ data = None
      /\ (\A i \in 1..Len(seqNames) : RegistryHolds(seqNames[i].speaker)) =>
           pc \notin {"IndexError", "ValueError"}

\* C17 witness: a package of a registry speaker's sequence and one of a
\* speaker outside the registry, both retained, has ended the build
C17_Witness ==
    /\ pc = "IndexError"
    /\ Cardinality(Retained) = 2
    /\ \E i, j \in Retained :
         /\ RegistryHolds(seqNames[i].speaker)
         /\ ~RegistryHolds(seqNames[j].speaker)

(***************************************************************************)
(* The loader (SpecLoader): the stream on a catalog of 1..LoaderSeqs files *)
(* of 1..LoaderFrames frames under a budget of 1..LoaderBudget, and on it  *)
(* getDataLoader(), lines 284-315, with the default onLoop, and            *)
(* AudioLoader.__iter__, lines 363-373, run up to MaxIterations times.     *)
(* iter holds the AudioLoader (nLoop, and the type, batchSize and          *)
(* randomOffset its samplerCall closes over), the frame of the generator   *)
(* (i, at, pending: the batches the DataLoader has not fetched yet, batch: *)
(* the items of the batch yielded last) and what the iteration did so far  *)
(* (epoch, samplers, updates, against: the buffer the sampler of package i *)
(* was built on).                                                          *)
(***************************************************************************)
MaxIterations == 2
LoaderSeqs == 3
LoaderFrames == 2
LoaderBudget == 2

\* line 372, with the test left out
CallsUpdateAlways(i, nLoop) == TRUE

\* line 372: if i < self.nLoop - 1
CallsUpdate(i, nLoop) == i < nLoop - 1

\* a randint that could return b + 1
randintPastUpper(a, b) == a..(b + 1)

\* line 310, when randomOffset is set: random.randint(a, b) returns an
\* integer N with a <= N <= b
randint(a, b) == a..b

\* lines 309-311: the offsets samplerCall can hand to getBaseSampler
samplerOffsets(randomOffset) ==
    IF randomOffset THEN randint(0, sizeWindow \div 2) ELSE {0}

\* lines 277-282 on the resident buffer, and the batches one walk of the
\* batch sampler yields (t: the permutation torch.randperm draws)
samplerCall(type, batchSize, offset, t) ==
    LET obj == IF type = "sequential"
               THEN SequentialSampler(Len(data[1]), sizeWindow, offset, batchSize)
               ELSE UniformAudioSampler(Len(data[1]), sizeWindow, offset)
        it == UniformIter(obj, t)
    IN  IF type = "sequential"
        THEN [type |-> type, obj |-> obj, batchSize |-> batchSize,
              err |-> "none", list |-> <<>>, batches |-> SequentialIter(obj)]
        ELSE [type |-> type, obj |-> obj, batchSize |-> batchSize,
              err |-> it.err, list |-> it.list,
              batches |-> BatchSampler(it.list, batchSize)]

InitLoader ==
    /\ \E n \in 1..LoaderSeqs :
         /\ files \in [1..n -> 1..LoaderFrames]
         /\ seqNames = Catalog(n)
    /\ MAX_SIZE_LOADED \in 1..LoaderBudget
    /\ speakers = <<0, 1>>
    /\ packageIndex = <<>>
    /\ totSize = 0
    /\ currentPack = -1
    /\ nextPack = 0
    /\ data = None /\ speakerLabel = None /\ seqLabel = None
    /\ phoneLabels = None /\ wordLabels = None
    /\ phoneLabelsDict = None /\ wordLabelsDict = None
    /\ nextData = None
    /\ r = None
    /\ cache = {}
    /\ probe = None
    /\ rng = 0
    /\ pc = "new"
    /\ ret = "ctor"
    /\ seqRange = <<0, 0>>
    /\ planLog = <<>>
    /\ sizeWindow \in 1..MaxWindow
    /\ sampler = None
    /\ labelData = None
    /\ iter = None

\* getDataLoader, lines 302-315, onLoop = -1
GetDataLoader ==
    /\ pc = "idle" /\ iter = None
    /\ \E type \in {"sequential", "uniform"}, batchSize \in 1..MaxBatch,
          randomOffset \in BOOLEAN :
         iter' = Some([nLoop |-> Len(packageIndex), type |-> type,
                       batchSize |-> batchSize, randomOffset |-> randomOffset,
                       i |-> 0, at |-> "created", pending |-> <<>>,
                       batch |-> <<>>, epoch |-> 0, samplers |-> 0,
                       updates |-> 0, against |-> None])
    /\ UNCHANGED <<streamVars, bufferVars, labelVars, sizeWindow, sampler, labelData,
                   nextData, planLog>>

\* line 363: __iter__ is called and the generator started
StartIteration ==
    /\ pc = "idle" /\ iter # None
    /\ iter[1].at \in {"created", "done"}
    /\ iter[1].epoch < MaxIterations
    /\ iter' = Some([iter[1] EXCEPT !.i = 0, !.at = "for", !.pending = <<>>,
                                    !.batch = <<>>, !.epoch = @ + 1,
                                    !.samplers = 0, !.updates = 0,
                                    !.against = None])
    /\ UNCHANGED <<streamVars, bufferVars, labelVars, sizeWindow, sampler, labelData,
                   nextData, planLog>>

\* lines 365-370: the sampler and the DataLoader of package i; an exception
\* of the sampler's __iter__ ends the generator
LoopSampler ==
    /\ pc = "idle" /\ iter # None
    /\ iter[1].at = "for" /\ iter[1].i < iter[1].nLoop
    /\ \E offset \in samplerOffsets(iter[1].randomOffset),
          t \in 0..(TorchStates - 1) :
         LET s == samplerCall(iter[1].type, iter[1].batchSize, offset, t)
         IN  /\ sampler' = Some(s)
             /\ iter' = Some([iter[1] EXCEPT !.at = IF s.err = "none"
                                                    THEN "batches" ELSE s.err,
                                             !.pending = s.batches,
                                             !.batch = <<>>,
                                             !.samplers = @ + 1,
                                             !.against = data])
    /\ rng' = IF iter[1].randomOffset THEN draw(rng) ELSE rng
    /\ UNCHANGED <<files, seqNames, MAX_SIZE_LOADED, speakers, packageIndex, totSize,
                   currentPack, nextPack, r, cache, probe, pc, ret, seqRange>>
    /\ UNCHANGED <<bufferVars, labelVars, sizeWindow, labelData, nextData, planLog>>

\* lines 370-371: the DataLoader fetches the items of the next batch from
\* the dataset, and the generator yields them
YieldBatch ==
    /\ iter # None
    /\ iter[1].at = "batches" /\ iter[1].pending # <<>>
    /\ LET b == Head(iter[1].pending)
       IN  /\ iter' = Some([iter[1] EXCEPT
                              !.pending = Tail(@),
                              !.batch = [k \in 1..Len(b) |-> getitem(b[k])]])
           /\ labelData' = Some(getitem(b[Len(b)]))
    /\ UNCHANGED <<streamVars, bufferVars, labelVars, sizeWindow, sampler, nextData,
                   planLog>>

\* lines 372-373: the sampler is exhausted and updateCall, loadNextPack,
\* is called; it blocks in r.wait() (lines 134-140)
UpdateCall ==
    /\ pc = "idle" /\ iter # None
    /\ iter[1].at = "batches" /\ iter[1].pending = <<>>
    /\ CallsUpdate(iter[1].i, iter[1].nLoop)
    /\ EnterAdvance(nextPack)
    /\ iter' = Some([iter[1] EXCEPT !.i = @ + 1, !.at = "for",
                                    !.updates = @ + 1])
    /\ UNCHANGED <<files, seqNames, MAX_SIZE_LOADED, speakers, packageIndex, totSize,
                   nextPack, r, cache, probe, rng, ret, seqRange>>
    /\ UNCHANGED <<labelVars, sizeWindow, sampler, labelData, nextData, planLog>>

\* lines 372 and 365: the sampler of the last package is exhausted, the
\* test fails and range(self.nLoop) is at its end
EndIteration ==
    /\ iter # None
    /\ iter[1].at = "batches" /\ iter[1].pending = <<>>
    /\ ~CallsUpdate(iter[1].i, iter[1].nLoop)
    /\ iter' = Some([iter[1] EXCEPT !.i = @ + 1, !.at = "done"])
    /\ UNCHANGED <<streamVars, bufferVars, labelVars, sizeWindow, sampler, labelData,
                   nextData, planLog>>

NextLoader ==
    \/ Construct
    \/ PrepareReturnsToInit
    \/ PrepareReturnsToLoad
    \/ WaitReturns
    \/ WorkerStep
    \/ GetDataLoader
    \/ StartIteration
    \/ LoopSampler
    \/ YieldBatch
    \/ UpdateCall
    \/ EndIteration

SpecLoader == InitLoader /\ [][NextLoader]_vars

\* C21: one full iteration over nLoop packages builds exactly nLoop
\* samplers and calls advance() exactly nLoop - 1 times; an advance() is
\* called only once every batch of the sampler before it was yielded, and
\* has returned before the next sampler is built; none is called after the
\* last package; every batch is fetched from the buffer its sampler was
\* built against.
C21_IterationShape ==
    iter # None =>
      LET L == iter[1]
      IN  /\ L.updates <= L.nLoop - 1
          /\ L.at = "done" => L.samplers = L.nLoop /\ L.updates = L.nLoop - 1
          /\ L.at = "for" => /\ L.samplers = L.i /\ L.updates = L.i
                             /\ L.pending = <<>>
          /\ L.at = "batches" =>
               /\ L.samplers = L.i + 1 /\ L.updates = L.i
               /\ pc = "idle"
               /\ data = L.against
               /\ \A k \in 1..Len(L.batch) :
                    /\ L.batch[k].err = "none"
                    /\ L.batch[k].outData =
                         PySlice(L.against[1], L.batch[k].idx,
                                 L.batch[k].idx + sizeWindow)
          /\ pc \in {"wait", "prepare"} => L.at = "for"

\* C21 witness: the second full iteration over two or more packages is
\* over, its last batch fetched from the buffer of its last sampler
C21_Witness ==
    /\ iter # None
    /\ iter[1].at = "done"
    /\ iter[1].epoch = 2
    /\ iter[1].nLoop >= 2
    /\ iter[1].batch # <<>>

\* the batches of start indices a built sampler yields (the flat samplers
\* once iterated)
YieldedBatches ==
    IF sampler[1].type \in {"samespeaker", "samesequence"}
    THEN sampler[1].obj.batches
    ELSE sampler[1].batches

\* every window a sampler asks for lies inside the buffer
WindowsFit ==
    sampler # None =>
      \A b \in 1..Len(YieldedBatches) : \A k \in 1..Len(YieldedBatches[b]) :
        /\ 0 <= YieldedBatches[b][k]
        /\ YieldedBatches[b][k] + sizeWindow <= Len(data[1])

\* C22: every start index a sampler yields satisfies the precondition of
\* item fetch, 0 <= idx <= bufferLen - sizeWindow - 1.
C22_IndicesMeetPrecondition ==
    sampler # None =>
      \A b \in 1..Len(YieldedBatches) : \A k \in 1..Len(YieldedBatches[b]) :
        /\ 0 <= YieldedBatches[b][k]
        /\ YieldedBatches[b][k] <= Len(data[1]) - sizeWindow - 1

\* the buffer parseNextDataBlock builds of package pack of the plan in force
BufferOf(pack) ==
    parseNextDataBlock(MapLoadFile(PackageRefs(pack)), speakers,
                       phoneLabelsDict, wordLabelsDict).data

\* C23: in every full iteration, the first and the later ones, the k-th
\* sampler is built against the buffer of package k of the plan in force.
\* (Stated for the packages before the last: once advance() has made the
\* last package of a plan of several resident, prepare() has replaced the
\* plan.)
C23_SamplerOnPackageK ==
    (/\ iter # None
     /\ iter[1].at = "batches"
     /\ (iter[1].i < iter[1].nLoop - 1 \/ iter[1].nLoop = 1))
    => /\ iter[1].i < Len(packageIndex)
       /\ iter[1].against = BufferOf(iter[1].i)

(***************************************************************************)
(* Item fetch over longer packages (SpecFetch): the buffer of a package of *)
(* 1..FetchItems sequences of 0..FetchSamples samples on two speakers, no  *)
(* label track, and __getitem__ called on it.                              *)
(***************************************************************************)
FetchItems == 4
FetchSamples == 1

InitFetch ==
    /\ \E n \in 1..FetchItems :
         /\ files \in [1..n -> 0..FetchSamples]
         /\ seqNames = Catalog(n)
         /\ packageIndex = <<<<0, n>>>>
    /\ phoneLabelsDict = None
    /\ wordLabelsDict = None
    /\ r = Some([id |-> 1, pack |-> 0, items |-> seqNames])
    /\ MAX_SIZE_LOADED = FetchItems * FetchSamples
    /\ speakers = <<0, 1>>
    /\ totSize = SumSeq(files)
    /\ currentPack = 0
    /\ nextPack = 0
    /\ data = None /\ speakerLabel = None /\ seqLabel = None
    /\ phoneLabels = None /\ wordLabels = None
    /\ nextData = None
    /\ cache = {}
    /\ probe = None
    /\ rng = 0
    /\ pc = "wait"
    /\ ret = "ctor"
    /\ seqRange = <<0, 0>>
    /\ planLog = <<>>
    /\ sizeWindow = 1
    /\ sampler = None
    /\ labelData = None
    /\ iter = None

SpecFetch == InitFetch /\ [][NextItem]_vars

\* the catalog entry of the sequence a sample of the buffer came from
EntryOf(sample) == CHOOSE e \in {seqNames[i] : i \in DOMAIN seqNames} : e.path = sample[1]

\* its position among the sequences of the package in (speaker, name) order
PositionOf(e) ==
    Cardinality({i \in DOMAIN seqNames :
                   \/ seqNames[i].speaker < e.speaker
                   \/ seqNames[i].speaker = e.speaker /\ seqNames[i].path < e.path})

\* the speaker id item fetch returns for a sample is that of its sequence
SpeakerCorrect ==
    (/\ labelData # None /\ data # None
     /\ labelData[1].idx \in 0..(Len(data[1]) - 1))
    => /\ labelData[1].err = "none"
       /\ labelData[1].speaker = EntryOf(At(data[1], labelData[1].idx)).speaker

\* C24: for every sample index idx of the buffer, item fetch returns the
\* speaker id of the sequence sample idx came from, and as sequence index
\* the position of that sequence among the retained sequences in
\* (speaker_id, sequence_name) order.
C24_SpeakerAndSequence ==
    (/\ labelData # None /\ data # None
     /\ labelData[1].idx \in 0..(Len(data[1]) - 1))
    => /\ labelData[1].err = "none"
       /\ labelData[1].speaker = EntryOf(At(data[1], labelData[1].idx)).speaker
       /\ labelData[1].seqIdx = PositionOf(EntryOf(At(data[1], labelData[1].idx)))

\* C25 as stated: the offset handed to a sampler is 0 when random offset is
\* disabled, otherwise an integer o with 0 <= o < sizeWindow / 2, the upper
\* bound never chosen.
C25_OffsetBelowHalf ==
    (iter # None /\ sampler # None) =>
      /\ ~iter[1].randomOffset => sampler[1].obj.offset = 0
      /\ iter[1].randomOffset =>
           /\ 0 <= sampler[1].obj.offset
           /\ 2 * sampler[1].obj.offset < sizeWindow

\* C25: the offset handed to the sampler of a package is 0 when random
\* offset is disabled, otherwise an integer o with
\* 0 <= o <= sizeWindow // 2, the upper bound included.
C25_OffsetUpToHalf ==
    (iter # None /\ sampler # None) =>
      /\ ~iter[1].randomOffset => sampler[1].obj.offset = 0
      /\ iter[1].randomOffset =>
           /\ 0 <= sampler[1].obj.offset
           /\ sampler[1].obj.offset <= sizeWindow \div 2

\* C25 witness: with random offset enabled, the sampler of the second
\* package was handed the offset sizeWindow // 2 > 0
C25_Witness ==
    /\ iter # None /\ sampler # None
    /\ iter[1].randomOffset
    /\ iter[1].at = "batches" /\ iter[1].i = 1
    /\ sampler[1].obj.offset = sizeWindow \div 2
    /\ sampler[1].obj.offset > 0

\* C26: running the planner, at construction or at an epoch wrap, leaves
\* the state of the ambient random generator as it was before the call:
\* every step that enters prepare() (and every step made while it waits
\* for the lengths) keeps rng.
C26_PlannerKeepsAmbientState == [][pc' = "prepare" => rng' = rng]_vars

\* C26 witness: the planner runs at an epoch wrap, after the loader drew a
\* phase offset, and the generator is in the state that draw left
C26_Witness ==
    /\ pc = "prepare" /\ ret = "next"
    /\ iter # None /\ iter[1].randomOffset
    /\ rng = draw(0)

(***************************************************************************)
(* The stream under fairness (SpecLive): a worker thread of the pool that  *)
(* has a task finishes it, and the orchestrating thread goes on once the   *)
(* result it waits for (r.wait(), line 140; pool.map, line 109) is ready.  *)
(* Calling advance() is left to the caller.                                *)
(***************************************************************************)
\* WaitReturns is enabled exactly when the orchestrating thread is in
\* r.wait() and the result is ready, and it always leaves r.wait(): weak
\* fairness of WaitReturns says that this does not hold for ever
WaitFair == []<>(~(pc = "wait" /\ Ready(r, cache)))

SpecLive ==
    /\ Init /\ [][Next]_vars
    /\ WF_vars(WorkerStep)
    /\ WF_vars(Construct)
    /\ WF_vars(PrepareReturnsToInit)
    /\ WF_vars(PrepareReturnsToLoad)
    /\ WaitFair

\* a call of loadNextPack() that is blocked (in r.wait(), or in the
\* pool.map of the prepare() it called) gets out of it: it returns or raises
AdvanceUnblocks ==
    (pc = "wait" \/ (pc = "prepare" /\ ret = "next"))
      ~> (pc \notin {"wait", "prepare"})

\* with no sequence longer than the budget, every advance() returns with a
\* resident buffer and a load in flight
AdvanceReturnsWithinBudget ==
    (pc = "wait" /\ \A p \in DOMAIN files : files[p] <= MAX_SIZE_LOADED)
      ~> (pc = "idle" /\ data # None /\ r # None)

\* C27: under fairness of the worker pool, every advance() call eventually
\* returns with a new resident buffer and a new load in flight.
C27_AdvanceReturns == (pc = "wait") ~> (pc = "idle" /\ data # None /\ r # None)

=============================================================================
